---- MODULE Spec2Model ----
(***************************************************************************)
(* A model of the Statistics engine (food_statistics.py) and of the two    *)
(* Preprocessing facades built on it (preprocessing_lib.py, the complete   *)
(* library, and preprocessing.py, the skeleton whose MissingValueProcessor *)
(* methods are still `pass`).                                              *)
(*                                                                         *)
(* Python values are records of one shape.  A number is                    *)
(*     (n / d) * sqrt(k),  d > 0, gcd(|n|, d) = 1, k square-free,          *)
(* which is closed under everything the code computes on one column        *)
(* (sum, difference, quotient, square, square root of a variance).  The    *)
(* flag f tells a float from an int: 2 == 2.0 in Python, but the two       *)
(* print differently.  Floats are exact reals here: rounding is not        *)
(* modelled.                                                               *)
(***************************************************************************)
EXTENDS Integers, Sequences, FiniteSets, TLC

VARIABLES
    variant,   \* which facade file is loaded: "lib" | "skeleton" | "none"
    phase,     \* "new" before the constructor ran, then "ready" or "failed"
    heap,      \* object id -> Python object (the dataset mappings)
    refs,      \* the `dataset` attribute of every component: an object id, 0 = no such attribute
    call,      \* the call that just returned: operation, arguments, outcome, the heap
               \* before it; NoCall once the caller has taken the result
    nops       \* calls made so far

vars == <<variant, phase, heap, refs, call, nops>>

----------------------------------------------------------------------------
(* Bounds of the model *)

MaxLen == 3    \* rows of a column handed to the Statistics engine alone
MaxRows == 2   \* rows of a dataset handed to the Preprocessing facade
MaxOps == 2    \* facade calls in one run

----------------------------------------------------------------------------
(* Python scalars *)

Null == [t |-> "null", n |-> 0, d |-> 1, k |-> 1, f |-> FALSE, s |-> ""]
I(x) == [t |-> "num", n |-> x, d |-> 1, k |-> 1, f |-> FALSE, s |-> ""]
S(x) == [t |-> "str", n |-> 0, d |-> 1, k |-> 1, f |-> FALSE, s |-> x]

IsNull(v) == v.t = "null"
IsNum(v) == v.t = "num"
IsStr(v) == v.t = "str"

\* Python's ==: the int/float flag does not take part.
PyEq(a, b) == a.t = b.t /\ a.n = b.n /\ a.d = b.d /\ a.k = b.k /\ a.s = b.s

Abs(x) == IF x < 0 THEN -x ELSE x

RECURSIVE GCD(_, _)
GCD(a, b) == IF b = 0 THEN a ELSE GCD(b, a % b)

\* the largest s with s*s dividing m (m >= 1)
SquarePart(m) == CHOOSE s \in 1..m : m % (s * s) = 0 /\ \A u \in (s + 1)..m : m % (u * u) # 0

\* (n / d) * sqrt(k) in canonical form, d # 0, k >= 1
Num(n, d, k, f) ==
    IF n = 0 THEN [t |-> "num", n |-> 0, d |-> 1, k |-> 1, f |-> f, s |-> ""]
    ELSE LET sq == SquarePart(k)
             n1 == (IF d < 0 THEN -n ELSE n) * sq
             d1 == Abs(d)
             g  == GCD(Abs(n1), d1)
         IN [t |-> "num", n |-> n1 \div g, d |-> d1 \div g, k |-> k \div (sq * sq), f |-> f, s |-> ""]

Float(v) == [v EXCEPT !.f = TRUE]
Zero == I(0)
FZero == Float(I(0))   \* 0.0

\* a + b, for a and b with one radical, or one of them 0: the values of one
\* column always are, since every method rewrites a column as a whole
Add(a, b) == Num(a.n * b.d + b.n * a.d, a.d * b.d, IF a.n = 0 THEN b.k ELSE a.k, a.f \/ b.f)
Neg(a) == [a EXCEPT !.n = -a.n]
Sub(a, b) == Add(a, Neg(b))
Mul(a, b) == Num(a.n * b.n, a.d * b.d, a.k * b.k, a.f \/ b.f)
\* Python's true division a / b (b # 0): always a float
Div(a, b) == Num(a.n * b.d * (IF b.n < 0 THEN -1 ELSE 1), a.d * Abs(b.n) * b.k, a.k * b.k, TRUE)
\* x ** 0.5 of a rational x >= 0
Sqrt(a) == IF a.n = 0 THEN FZero ELSE Num(1, a.d, a.n * a.d, TRUE)

Sign(a) == IF a.n > 0 THEN 1 ELSE IF a.n < 0 THEN -1 ELSE 0
\* the square of |a|, as a pair to cross-multiply
SqLess(a, b) == a.n * a.n * a.k * b.d * b.d < b.n * b.n * b.k * a.d * a.d
NumLess(a, b) ==
    IF Sign(a) # Sign(b) THEN Sign(a) < Sign(b)
    ELSE IF Sign(a) > 0 THEN SqLess(a, b)
    ELSE IF Sign(a) < 0 THEN SqLess(b, a)
    ELSE FALSE

\* the strings of the model, in Python's (lexicographic) order
StrOrder == <<"a", "b">>
StrRank(x) == CHOOSE i \in 1..Len(StrOrder) : StrOrder[i] = x

\* Python's < on two values of one orderable type
Less(a, b) == IF IsNum(a) THEN NumLess(a, b) ELSE StrRank(a.s) < StrRank(b.s)

\* sequence helpers
Range(q) == {q[i] : i \in 1..Len(q)}
RECURSIVE SeqSum(_)
\* sum(data): Python starts from the int 0
SeqSum(q) == IF q = <<>> THEN Zero ELSE Add(SeqSum(SubSeq(q, 1, Len(q) - 1)), q[Len(q)])

\* sorted(q) raises TypeError as soon as two elements have to be compared that
\* Python cannot order: None with anything, a number with a string.
Orderable(q) ==
    Len(q) < 2 \/ ((\A i \in 1..Len(q) : IsNum(q[i])) \/ (\A i \in 1..Len(q) : IsStr(q[i])))
RECURSIVE Insert(_, _)
\* stable insertion of v into the sorted sequence q, after its equals
Insert(q, v) ==
    IF q = <<>> THEN <<v>>
    ELSE IF Less(v, q[Len(q)]) THEN Append(Insert(SubSeq(q, 1, Len(q) - 1), v), q[Len(q)])
    ELSE Append(q, v)
RECURSIVE Sorted(_)
Sorted(q) == IF Len(q) < 2 THEN q ELSE Insert(Sorted(SubSeq(q, 1, Len(q) - 1)), q[Len(q)])

----------------------------------------------------------------------------
(* Python dict objects.  ks is the insertion order of the keys, m the      *)
(* values; nl is the set of keys whose value is not a list; isdict is      *)
(* FALSE for an object that is no dict at all.                             *)

Dict(ks, m) == [isdict |-> TRUE, ks |-> ks, m |-> m, nl |-> {}]
NoDict == [isdict |-> FALSE, ks |-> <<>>, m |-> <<>>, nl |-> {}]
Has(ds, c) == c \in DOMAIN ds.m
\* ds[c] = v: a new key goes last, an old key keeps its place
Put(ds, c, v) ==
    [ds EXCEPT !.ks = IF Has(ds, c) THEN ds.ks ELSE Append(ds.ks, c),
               !.m = [x \in DOMAIN ds.m \cup {c} |-> IF x = c THEN v ELSE ds.m[x]]]
\* del ds[c]
Del(ds, c) ==
    [ds EXCEPT !.ks = SelectSeq(ds.ks, LAMBDA x : x # c),
               !.m = [x \in DOMAIN ds.m \ {c} |-> ds.m[x]]]

\* results of a call: err = "" on a normal return
Ok(v) == [err |-> "", val |-> v]
Raise(e) == [err |-> e, val |-> <<>>]

----------------------------------------------------------------------------
(* class Statistics (food_statistics.py); ds is the object self.dataset *)

\* Statistics.__init__: the validation; the caller stores the reference
StatisticsInitError(obj) ==
    IF ~obj.isdict THEN "TypeError"
    ELSE IF obj.nl # {} THEN "TypeError"
    ELSE IF Cardinality({Len(obj.m[c]) : c \in DOMAIN obj.m}) # 1 THEN "ValueError"
    ELSE ""

_get_column(ds, c) == IF Has(ds, c) THEN Ok(ds.m[c]) ELSE Raise("KeyError")

\* non_null(name): the spec's column access helper, missing from food_statistics.py
_non_null(ds, c) ==
    IF Has(ds, c) THEN Ok(SelectSeq(ds.m[c], LAMBDA v : ~IsNull(v))) ELSE Raise("KeyError")

AllNumeric(q) == \A i \in 1..Len(q) : IsNum(q[i])

\* TRUE when _assert_numeric(values, ...) raises TypeError
_assert_numeric(values) == \E i \in 1..Len(values) : ~IsNum(values[i])

mean(ds, c) ==
    LET data == _get_column(ds, c) IN
    IF data.err # "" THEN data
    ELSE IF _assert_numeric(data.val) THEN Raise("TypeError")
    ELSE IF Len(data.val) = 0 THEN Ok(FZero)
    ELSE Ok(Div(SeqSum(data.val), I(Len(data.val))))

median(ds, c) ==
    LET data == _get_column(ds, c) IN
    IF data.err # "" THEN data
    ELSE IF Len(data.val) = 0 THEN Ok(FZero)
    ELSE IF ~Orderable(data.val) THEN Raise("TypeError")
    ELSE LET q == Sorted(data.val)
             n == Len(q)
         IN IF n % 2 = 1 THEN Ok(q[(n \div 2) + 1])
            ELSE IF ~IsNum(q[1]) \/ ~IsNum(q[2]) THEN Raise("TypeError")
            ELSE Ok(Div(Add(q[n \div 2], q[(n \div 2) + 1]), I(2)))

RECURSIVE Frequencies(_)
\* the loop of absolute_frequency: <<[key, cnt], ...>> in first-seen order
Frequencies(values) ==
    IF values = <<>> THEN <<>>
    ELSE LET prev == Frequencies(SubSeq(values, 1, Len(values) - 1))
             v == values[Len(values)]
         IN IF \E i \in 1..Len(prev) : PyEq(prev[i].key, v)
            THEN [i \in 1..Len(prev) |->
                    IF PyEq(prev[i].key, v) THEN [prev[i] EXCEPT !.cnt = @ + 1] ELSE prev[i]]
            ELSE Append(prev, [key |-> v, cnt |-> 1])

absolute_frequency(ds, c) ==
    LET values == _get_column(ds, c) IN
    IF values.err # "" THEN values ELSE Ok(Frequencies(values.val))

MaxCnt(fr) == CHOOSE x \in {fr[i].cnt : i \in 1..Len(fr)} : \A j \in 1..Len(fr) : fr[j].cnt <= x
Column(fr, name) == [i \in 1..Len(fr) |-> fr[i][name]]

mode(ds, c) ==
    LET data == _get_column(ds, c) IN
    IF data.err # "" THEN data
    ELSE IF Len(data.val) = 0 THEN Ok(<<>>)
    ELSE LET fr == absolute_frequency(ds, c).val
         IN Ok(Column(SelectSeq(fr, LAMBDA e : e.cnt = MaxCnt(fr)), "key"))

variance(ds, c) ==
    LET data == _get_column(ds, c) IN
    IF data.err # "" THEN data
    ELSE IF _assert_numeric(data.val) THEN Raise("TypeError")
    ELSE IF Len(data.val) = 0 THEN Ok(FZero)
    ELSE LET media == mean(ds, c).val
             sq == [i \in 1..Len(data.val) |->
                      Mul(Sub(data.val[i], media), Sub(data.val[i], media))]
         IN Ok(Div(SeqSum(sq), I(Len(data.val))))

stdev(ds, c) ==
    LET data == _get_column(ds, c) IN
    IF data.err # "" THEN data
    ELSE IF _assert_numeric(data.val) THEN Raise("TypeError")
    ELSE IF Len(data.val) = 0 THEN Ok(FZero)
    ELSE Ok(Sqrt(variance(ds, c).val))

relative_frequency(ds, c) ==
    LET stats == _get_column(ds, c) IN
    IF stats.err # "" THEN stats
    ELSE IF Len(stats.val) = 0 THEN Ok(<<>>)
    ELSE LET fr == absolute_frequency(ds, c).val
             total == SeqSum([i \in 1..Len(fr) |-> I(fr[i].cnt)])
         IN Ok([i \in 1..Len(fr) |-> [key |-> fr[i].key, cnt |-> Div(I(fr[i].cnt), total)]])

RECURSIVE Accumulate(_)
\* the running total over a frequency table already in sorted order
Accumulate(fr) ==
    IF fr = <<>> THEN <<>>
    ELSE LET prev == Accumulate(SubSeq(fr, 1, Len(fr) - 1))
             last == fr[Len(fr)]
         IN Append(prev, [key |-> last.key,
                          cnt |-> Add(IF prev = <<>> THEN Zero ELSE prev[Len(prev)].cnt, last.cnt)])

\* the entries of fr in the order of the sorted keys
SortByKey(fr) ==
    LET keys == Sorted(Column(fr, "key"))
    IN [i \in 1..Len(keys) |-> CHOOSE e \in Range(fr) : PyEq(e.key, keys[i])]

cumulative_frequency(ds, c, frequency_method) ==
    LET data == _get_column(ds, c) IN
    IF data.err # "" THEN data
    ELSE IF Len(data.val) = 0 THEN Ok(<<>>)
    ELSE IF frequency_method \notin {"absolute", "relative"} THEN Raise("ValueError")
    ELSE LET fr == IF frequency_method = "absolute"
                   THEN LET a == absolute_frequency(ds, c).val
                        IN [i \in 1..Len(a) |-> [key |-> a[i].key, cnt |-> I(a[i].cnt)]]
                   ELSE relative_frequency(ds, c).val
         IN IF ~Orderable(Column(fr, "key")) THEN Raise("TypeError")
            ELSE Ok(Accumulate(SortByKey(fr)))

\* data.count(v)
Count(data, v) == Cardinality({i \in 1..Len(data) : PyEq(data[i], v)})

conditional_probability(ds, c, value1, value2) ==
    LET data == _get_column(ds, c) IN
    IF data.err # "" THEN data
    ELSE IF Len(data.val) < 2 THEN Ok(FZero)
    ELSE LET count_b == Count(data.val, value2)
             count_ba == Cardinality({i \in 1..(Len(data.val) - 1) :
                             PyEq(data.val[i], value2) /\ PyEq(data.val[i + 1], value1)})
         IN IF count_b > 0 THEN Ok(Div(I(count_ba), I(count_b))) ELSE Ok(FZero)

\* Statistics.__init__(dataset), dataset being the object h[ref]:
\* the outcome, the reference stored in self.dataset, the heap afterwards
StatisticsInit(h, ref) == [err |-> StatisticsInitError(h[ref]), dataset |-> ref, heap |-> h]

----------------------------------------------------------------------------
(* The engine on its own: a caller builds Statistics(dataset), queries it  *)
(* and keeps writing into its own mapping.                                 *)

StatValues == {Null, I(1), I(2), S("a")}
Lists(V, n) == UNION {[1..k -> V] : k \in 0..n}
\* a second column, of every length, to exercise the shape check
Ones(k) == [i \in 1..k |-> I(1)]
NotAList(ds, c) == [Put(ds, c, <<>>) EXCEPT !.nl = @ \cup {c}]
EmptyDict == Dict(<<>>, <<>>)

StatArgs ==
    LET xs == {Put(EmptyDict, "x", q) : q \in Lists(StatValues, MaxLen)} \cup {NotAList(EmptyDict, "x")}
    IN {NoDict, EmptyDict} \cup xs
       \cup {Put(ds, "y", Ones(k)) : ds \in xs, k \in 0..MaxLen}
       \cup {NotAList(ds, "y") : ds \in xs}

NoRefs == [pre |-> "none", stat |-> "none", mv |-> "none", mvstat |-> "none",
           sc |-> "none", scstat |-> "none", enc |-> "none", encstat |-> "none"]
NoCall == [op |-> "", args |-> <<>>, ret |-> Ok(<<>>), before |-> <<>>, rbefore |-> NoRefs]

StatsInit ==
    /\ variant = "none"
    /\ phase = "new"
    /\ \E obj \in StatArgs : heap = [caller |-> obj, private |-> NoDict]
    /\ refs = NoRefs
    /\ call = NoCall
    /\ nops = 0

\* engine = Statistics(dataset)
StatisticsNew ==
    /\ variant = "none" /\ phase = "new"
    /\ LET r == StatisticsInit(heap, "caller") IN
       /\ phase' = IF r.err = "" THEN "ready" ELSE "failed"
       /\ refs' = IF r.err = "" THEN [refs EXCEPT !.stat = r.dataset] ELSE refs
       /\ heap' = r.heap
       /\ call' = [op |-> "init", args |-> <<>>, ret |-> [err |-> r.err, val |-> <<>>], before |-> heap,
                   rbefore |-> refs]
    /\ UNCHANGED <<variant, nops>>

StatColumns == {"x", "y", "z"}
Engine == heap[refs.stat]
Query(op, args, ret) ==
    /\ variant = "none" /\ phase = "ready" /\ call = NoCall
    /\ call' = [op |-> op, args |-> args, ret |-> ret, before |-> heap, rbefore |-> refs]
    /\ UNCHANGED <<variant, phase, heap, refs, nops>>

Mean == \E c \in StatColumns : Query("mean", [col |-> c], mean(Engine, c))
Median == \E c \in StatColumns : Query("median", [col |-> c], median(Engine, c))
Mode == \E c \in StatColumns : Query("mode", [col |-> c], mode(Engine, c))
FrequencyMethods == {"absolute", "relative", "percent"}
CumulativeFrequency ==
    \E c \in StatColumns, fm \in FrequencyMethods :
        Query("cumulative_frequency", [col |-> c, method |-> fm], cumulative_frequency(Engine, c, fm))
ConditionalProbability ==
    \E c \in StatColumns, v1, v2 \in StatValues :
        Query("conditional_probability", [col |-> c, value1 |-> v1, value2 |-> v2],
              conditional_probability(Engine, c, v1, v2))

\* the caller's own code: dataset[c][i] = v on the mapping it handed over
CallerWrites ==
    /\ variant = "none" /\ phase = "ready" /\ call = NoCall
    /\ \E c \in DOMAIN heap.caller.m : \E i \in 1..Len(heap.caller.m[c]) :
       \E v \in IF c = "x" THEN StatValues ELSE {I(1)} :
          /\ heap.caller.m[c][i] # v
          /\ heap' = [heap EXCEPT !.caller.m[c][i] = v]
          /\ call' = [op |-> "caller_write", args |-> [col |-> c, row |-> i, value |-> v],
                      ret |-> Ok(<<>>), before |-> heap, rbefore |-> refs]
    /\ UNCHANGED <<variant, phase, refs, nops>>

\* the caller takes the result and goes on
Return ==
    /\ phase = "ready" /\ call # NoCall
    /\ call' = NoCall
    /\ UNCHANGED <<variant, phase, heap, refs, nops>>

StatsNext ==
    \/ StatisticsNew
    \/ Return
    \/ Mean
    \/ Median
    \/ Mode
    \/ CumulativeFrequency
    \/ ConditionalProbability
    \/ CallerWrites

SpecStats == StatsInit /\ [][StatsNext]_vars

----------------------------------------------------------------------------
(* The components of preprocessing_lib.py.  Every operator of a method      *)
(* takes the heap h and the references r of the facade's components and    *)
(* returns the outcome: err, the heap and the references afterwards, and   *)
(* the value returned.                                                     *)

Done(h, r) == [err |-> "", heap |-> h, refs |-> r, val |-> <<>>]
Fail(e, h, r) == [err |-> e, heap |-> h, refs |-> r, val |-> <<>>]

\* MissingValueProcessor._get_target_columns: cols is list(columns), in the
\* order the set happens to iterate; the result is "" or the error raised
TargetColumns(ds, cols) == IF cols = <<>> THEN ds.ks ELSE cols
_validate_columns(ds, cols) ==
    IF \E i \in 1..Len(cols) : ~Has(ds, cols[i]) THEN "KeyError" ELSE ""

\* a slip: any() for all(), the rows with some non-null targeted value
SomeNonNullInRow(ds, target, i) == \E j \in 1..Len(target) : ~IsNull(ds.m[target[j]][i])

\* the condition notna and dropna hand to _filter_rows, on row i
NoNullInRow(ds, target, i) == \A j \in 1..Len(target) : ~IsNull(ds.m[target[j]][i])

RowCount(ds) == IF ds.ks = <<>> THEN 0 ELSE Len(ds.m[ds.ks[1]])
KeepRows(q, idx) == [j \in 1..Len(idx) |-> q[idx[j]]]
\* the indices of 1..n that satisfy Keep, ascending
RECURSIVE KeptIndices(_, _, _)
KeptIndices(ds, target, n) ==
    IF n = 0 THEN <<>>
    ELSE LET prev == KeptIndices(ds, target, n - 1)
         IN IF NoNullInRow(ds, target, n) THEN Append(prev, n) ELSE prev

\* a slip: only the targeted columns are rebuilt from the kept rows
FilterTargetsOnly(ds, cols) ==
    LET target == TargetColumns(ds, cols) IN
    IF _validate_columns(ds, target) # "" THEN Raise("KeyError")
    ELSE LET indices == KeptIndices(ds, target, RowCount(ds))
         IN Ok([ds EXCEPT !.m = [c \in DOMAIN ds.m |->
                   IF c \in Range(target) THEN KeepRows(ds.m[c], indices) ELSE ds.m[c]]])

\* MissingValueProcessor._filter_rows(columns, not-null condition) on ds
_filter_rows(ds, cols) ==
    LET target == TargetColumns(ds, cols) IN
    IF _validate_columns(ds, target) # "" THEN Raise("KeyError")
    ELSE IF ds.ks # <<>> /\ Cardinality({Len(ds.m[c]) : c \in DOMAIN ds.m}) # 1
    THEN Raise("ValueError")
    ELSE LET indices == KeptIndices(ds, target, RowCount(ds))
         IN Ok([ds EXCEPT !.m = [c \in DOMAIN ds.m |-> KeepRows(ds.m[c], indices)]])

\* MissingValueProcessor.notna
notna_lib(h, r, cols) ==
    LET res == _filter_rows(h[r.mv], cols)
    IN [err |-> res.err, heap |-> h, refs |-> r, val |-> res.val]

\* MissingValueProcessor.dropna: self.dataset = self._filter_rows(...), a new dict
dropna_lib(h, r, cols) ==
    LET res == _filter_rows(h[r.mv], cols) IN
    IF res.err # "" THEN Fail(res.err, h, r)
    ELSE Done([h EXCEPT !.private = res.val], [r EXCEPT !.mv = "private"])

\* the fill value fillna computes for one column from its non-null values
FillValue(non_null, method, default_value) ==
    IF non_null = <<>> \/ method \notin {"mean", "median", "mode"} THEN Ok(default_value)
    ELSE IF method = "mean"
    THEN IF ~AllNumeric(non_null) THEN Raise("TypeError")
         ELSE Ok(Div(SeqSum(non_null), I(Len(non_null))))
    ELSE IF method = "median"
    THEN IF ~Orderable(non_null) THEN Raise("TypeError")
         ELSE LET sorted_vals == Sorted(non_null)
                  n == Len(sorted_vals)
                  mid == n \div 2
              IN IF n % 2 = 1 THEN Ok(sorted_vals[mid + 1])
                 ELSE IF ~AllNumeric(sorted_vals) THEN Raise("TypeError")
                 ELSE Ok(Div(Add(sorted_vals[mid], sorted_vals[mid + 1]), I(2)))
    ELSE LET freq == Frequencies(non_null)
         IN Ok(freq[CHOOSE i \in 1..Len(freq) :
                      freq[i].cnt = MaxCnt(freq) /\ \A j \in 1..(i - 1) : freq[j].cnt # MaxCnt(freq)].key)

\* one turn of the loop of MissingValueProcessor.fillna
fillna_column(h, r, column, method, default_value) ==
    LET values == h[r.mv].m[column] IN
    IF \A i \in 1..Len(values) : ~IsNull(values[i]) THEN Done(h, r)
    ELSE LET non_null == _non_null(h[r.mvstat], column) IN
         IF non_null.err # "" THEN Fail(non_null.err, h, r)
         ELSE LET fill_value == FillValue(non_null.val, method, default_value) IN
              IF fill_value.err # "" THEN Fail(fill_value.err, h, r)
              ELSE Done([h EXCEPT ![r.mv] = Put(@, column,
                            [i \in 1..Len(values) |->
                                IF IsNull(values[i]) THEN fill_value.val ELSE values[i]])], r)

RECURSIVE fillna_loop(_, _, _, _, _)
fillna_loop(h, r, cols, method, default_value) ==
    IF cols = <<>> THEN Done(h, r)
    ELSE LET step == fillna_column(h, r, Head(cols), method, default_value)
         IN IF step.err # "" THEN step
            ELSE fillna_loop(step.heap, r, Tail(cols), method, default_value)

\* MissingValueProcessor.fillna
fillna_lib(h, r, cols, method, default_value) ==
    LET target == TargetColumns(h[r.mv], cols) IN
    IF _validate_columns(h[r.mv], target) # "" THEN Fail("KeyError", h, r)
    ELSE fillna_loop(h, r, target, method, default_value)

\* min(values), max(values) of a non-empty sequence of numbers
Min(q) == q[CHOOSE i \in 1..Len(q) : \A j \in 1..Len(q) : ~NumLess(q[j], q[i]) /\ (j < i => NumLess(q[i], q[j]))]
Max(q) == q[CHOOSE i \in 1..Len(q) : \A j \in 1..Len(q) : ~NumLess(q[i], q[j]) /\ (j < i => NumLess(q[j], q[i]))]

\* one turn of the loop of Scaler.minMax_scaler (preprocessing_lib.py)
minMax_column_lib(h, r, column) ==
    LET values == _non_null(h[r.scstat], column) IN
    IF values.err # "" THEN Fail(values.err, h, r)
    ELSE IF _assert_numeric(values.val) THEN Fail("TypeError", h, r)
    ELSE IF values.val = <<>> THEN Done(h, r)
    ELSE LET v_min == Min(values.val)
             diff == Sub(Max(values.val), v_min)
             old == h[r.sc].m[column]
         IN Done([h EXCEPT ![r.sc] = Put(@, column,
                    [i \in 1..Len(old) |->
                        IF IsNull(old[i]) THEN Null
                        ELSE IF diff.n = 0 THEN FZero
                        ELSE Div(Sub(old[i], v_min), diff)])], r)

\* one turn of the loop of Scaler.standard_scaler (preprocessing_lib.py)
standard_column_lib(h, r, column) ==
    LET values == _non_null(h[r.scstat], column) IN
    IF values.err # "" THEN Fail(values.err, h, r)
    ELSE IF _assert_numeric(values.val) THEN Fail("TypeError", h, r)
    ELSE IF values.val = <<>> THEN Done(h, r)
    ELSE LET mu == mean(h[r.scstat], column)
             sigma == stdev(h[r.scstat], column)
             old == h[r.sc].m[column]
         IN IF mu.err # "" THEN Fail(mu.err, h, r)
            ELSE IF sigma.err # "" THEN Fail(sigma.err, h, r)
            ELSE Done([h EXCEPT ![r.sc] = Put(@, column,
                    [i \in 1..Len(old) |->
                        IF IsNull(old[i]) THEN Null
                        ELSE IF sigma.val.n = 0 THEN FZero
                        ELSE Div(Sub(old[i], mu.val), sigma.val)])], r)

\* the digits after the point of r / d, 0 <= r < d, when they end
RECURSIVE Decimals(_, _)
Decimals(r, d) == IF r = 0 THEN "" ELSE ToString((r * 10) \div d) \o Decimals((r * 10) % d, d)
RECURSIVE Only2And5(_)
Only2And5(d) == IF d = 1 THEN TRUE
                ELSE IF d % 2 = 0 THEN Only2And5(d \div 2)
                ELSE IF d % 5 = 0 THEN Only2And5(d \div 5)
                ELSE FALSE
\* str(v), as an f-string formats a category.  A float whose decimal
\* expansion does not end is written as the fraction and its radical, not
\* with the 17 digits Python prints: a different, still one-to-one, name.
PyStr(v) ==
    IF IsNull(v) THEN "None"
    ELSE IF IsStr(v) THEN v.s
    ELSE IF ~v.f THEN ToString(v.n)
    ELSE IF v.k = 1 /\ Only2And5(v.d)
    THEN (IF v.n < 0 THEN "-" ELSE "") \o ToString(Abs(v.n) \div v.d) \o "."
         \o (IF Abs(v.n) % v.d = 0 THEN "0" ELSE Decimals(Abs(v.n) % v.d, v.d))
    ELSE ToString(v.n) \o "/" \o ToString(v.d) \o "r" \o ToString(v.k)

\* the keys of a dict or set filled from q: one per ==-class, the first seen
Distinct(q) == Column(Frequencies(q), "key")
IndexOf(q, v) == CHOOSE i \in 1..Len(q) : PyEq(q[i], v)
Flag(b) == IF b THEN I(1) ELSE I(0)

\* one turn of the loop of Encoder.label_encode (preprocessing_lib.py)
label_column_lib(h, r, column) ==
    LET values == _non_null(h[r.encstat], column) IN
    IF values.err # "" THEN Fail(values.err, h, r)
    ELSE IF ~Orderable(Distinct(values.val)) THEN Fail("TypeError", h, r)
    ELSE LET cats == Sorted(Distinct(values.val))
             old == h[r.enc].m[column]
         IN Done([h EXCEPT ![r.enc] = Put(@, column,
                    [i \in 1..Len(old) |->
                        IF IsNull(old[i]) THEN Null ELSE I(IndexOf(cats, old[i]) - 1)])], r)

\* for cat in cats: dataset[f"{column}_{cat}"] = [1 if v == cat else 0 for v in dataset[column]]
RECURSIVE AddIndicators(_, _, _)
AddIndicators(ds, column, cats) ==
    IF cats = <<>> THEN ds
    ELSE LET cat == Head(cats)
             old == ds.m[column]
         IN AddIndicators(Put(ds, column \o "_" \o PyStr(cat),
                              [i \in 1..Len(old) |-> Flag(PyEq(old[i], cat))]),
                          column, Tail(cats))

\* one turn of the loop of Encoder.oneHot_encode (preprocessing_lib.py)
oneHot_column_lib(h, r, column) ==
    LET values == _non_null(h[r.encstat], column) IN
    IF values.err # "" THEN Fail(values.err, h, r)
    ELSE IF ~Orderable(Distinct(values.val)) THEN Fail("TypeError", h, r)
    ELSE Done([h EXCEPT ![r.enc] =
                  Del(AddIndicators(@, column, Sorted(Distinct(values.val))), column)], r)

----------------------------------------------------------------------------
(* Scaler and Encoder of preprocessing.py: they reach the dataset through  *)
(* self.stats only and read whole columns, nulls included.                 *)

minMax_column_skel(h, r, col) ==
    LET values == _get_column(h[r.scstat], col) IN
    IF values.err # "" THEN Fail(values.err, h, r)
    ELSE IF _assert_numeric(values.val) THEN Fail("TypeError", h, r)
    ELSE IF values.val = <<>> THEN Done(h, r)
    ELSE LET v_min == Min(values.val)
             diff == Sub(Max(values.val), v_min)
         IN Done([h EXCEPT ![r.scstat] = Put(@, col,
                    [i \in 1..Len(values.val) |->
                        IF diff.n = 0 THEN FZero ELSE Div(Sub(values.val[i], v_min), diff)])], r)

standard_column_skel(h, r, col) ==
    LET values == _get_column(h[r.scstat], col) IN
    IF values.err # "" THEN Fail(values.err, h, r)
    ELSE IF _assert_numeric(values.val) THEN Fail("TypeError", h, r)
    ELSE IF values.val = <<>> THEN Done(h, r)
    ELSE LET mu == mean(h[r.scstat], col).val
             sigma == stdev(h[r.scstat], col).val
         IN Done([h EXCEPT ![r.scstat] = Put(@, col,
                    [i \in 1..Len(values.val) |->
                        IF sigma.n = 0 THEN FZero ELSE Div(Sub(values.val[i], mu), sigma)])], r)

label_column_skel(h, r, col) ==
    LET values == _get_column(h[r.encstat], col) IN
    IF values.err # "" THEN Fail(values.err, h, r)
    ELSE LET unique == Column(absolute_frequency(h[r.encstat], col).val, "key")
         IN Done([h EXCEPT ![r.encstat] = Put(@, col,
                    [i \in 1..Len(values.val) |-> I(IndexOf(unique, values.val[i]) - 1)])], r)

oneHot_column_skel(h, r, col) ==
    LET values == _get_column(h[r.encstat], col) IN
    IF values.err # "" THEN Fail(values.err, h, r)
    ELSE LET unique == Column(absolute_frequency(h[r.encstat], col).val, "key")
         IN Done([h EXCEPT ![r.encstat] = Del(AddIndicators(@, col, unique), col)], r)

\* the body of the loop `for column in ...` of the method named by kind
Turn(kind, h, r, column) ==
    CASE kind = "minMax_lib" -> minMax_column_lib(h, r, column)
      [] kind = "standard_lib" -> standard_column_lib(h, r, column)
      [] kind = "label_lib" -> label_column_lib(h, r, column)
      [] kind = "oneHot_lib" -> oneHot_column_lib(h, r, column)
      [] kind = "minMax_skel" -> minMax_column_skel(h, r, column)
      [] kind = "standard_skel" -> standard_column_skel(h, r, column)
      [] kind = "label_skel" -> label_column_skel(h, r, column)
      [] kind = "oneHot_skel" -> oneHot_column_skel(h, r, column)

\* for column in cols: the turns in order, stopping at the first that raises
RECURSIVE ForEach(_, _, _, _)
ForEach(kind, h, r, cols) ==
    IF cols = <<>> THEN Done(h, r)
    ELSE LET step == Turn(kind, h, r, Head(cols))
         IN IF step.err # "" THEN step ELSE ForEach(kind, step.heap, r, Tail(cols))

----------------------------------------------------------------------------
(* class Preprocessing, of preprocessing_lib.py (v = "lib") and of          *)
(* preprocessing.py (v = "skeleton")                                       *)

\* Preprocessing.__init__: the dataset attribute of the facade, of its engine,
\* of the MissingValueProcessor, the Scaler and the Encoder and of their engines
PreprocessingInit(v) ==
    IF v = "lib"
    THEN [pre |-> "caller", stat |-> "caller", mv |-> "caller", mvstat |-> "caller",
          sc |-> "caller", scstat |-> "caller", enc |-> "caller", encstat |-> "caller"]
    ELSE [pre |-> "caller", stat |-> "caller", mv |-> "caller", mvstat |-> "none",
          sc |-> "none", scstat |-> "caller", enc |-> "none", encstat |-> "caller"]

\* None, as the value a method without a return statement gives back
None == NoDict

notna(v, h, r, cols) ==
    IF v = "lib" THEN notna_lib(h, r, cols) ELSE [Done(h, r) EXCEPT !.val = None]

fillna(v, h, r, cols, method, default_value) ==
    IF v = "lib" THEN fillna_lib(h, r, cols, method, default_value) ELSE Done(h, r)

dropna(v, h, r, cols) ==
    IF v = "lib" THEN dropna_lib(h, r, cols) ELSE Done(h, r)

scale(v, h, r, cols, method) ==
    LET target == TargetColumns(h[r.scstat], cols) IN
    IF method = "minMax"
    THEN ForEach(IF v = "lib" THEN "minMax_lib" ELSE "minMax_skel", h, r, target)
    ELSE IF method = "standard"
    THEN ForEach(IF v = "lib" THEN "standard_lib" ELSE "standard_skel", h, r, target)
    ELSE Fail("ValueError", h, r)

encode(v, h, r, cols, method) ==
    IF cols = <<>> THEN Done(h, r)
    ELSE IF method \notin {"label", "oneHot"} THEN Fail("ValueError", h, r)
    ELSE IF v = "lib" /\ _validate_columns(h[r.enc], cols) # "" THEN Fail("KeyError", h, r)
    ELSE ForEach((IF method = "label" THEN "label" ELSE "oneHot")
                 \o (IF v = "lib" THEN "_lib" ELSE "_skel"), h, r, cols)

----------------------------------------------------------------------------
(* The facade in use: Preprocessing(dataset), then any calls *)

\* a numeric column x, alone or beside a categorical column y
XValues == {Null, I(1), I(2)}
YValues == {Null, S("a")}
FacadeArgs ==
    LET xs == {Put(EmptyDict, "x", q) : q \in Lists(XValues, MaxRows)}
    IN xs \cup {Put(ds, "y", q) : ds \in xs, q \in Lists(YValues, MaxRows)}

\* the column sets a call may name ({} stands for None and for the empty set)
ColumnSets == {{}, {"x"}, {"x", "y"}, {"x", "z"}}
\* list(columns): the elements in any order
Orders(cs) == {q \in [1..Cardinality(cs) -> cs] : Range(q) = cs}
FillMethods == {"mean", "median", "mode", "constant"}
Defaults == {I(0)}
ScaleMethods == {"minMax", "standard", "robust"}
EncodeMethods == {"label", "oneHot", "binary"}

Init ==
    /\ variant \in {"lib", "skeleton"}
    /\ phase = "ready"
    /\ \E obj \in FacadeArgs :
          /\ StatisticsInitError(obj) = ""
          /\ heap = [caller |-> obj, private |-> NoDict]
    /\ refs = PreprocessingInit(variant)
    /\ call = NoCall
    /\ nops = 0

Call(op, args, res) ==
    /\ variant # "none" /\ phase = "ready" /\ call = NoCall /\ nops < MaxOps
    /\ heap' = res.heap
    /\ refs' = res.refs
    /\ call' = [op |-> op, args |-> args, ret |-> [err |-> res.err, val |-> res.val],
                before |-> heap, rbefore |-> refs]
    /\ nops' = nops + 1
    /\ UNCHANGED <<variant, phase>>

Notna ==
    \E cs \in ColumnSets : \E cols \in Orders(cs) :
        Call("notna", [cols |-> cs], notna(variant, heap, refs, cols))
Fillna ==
    \E cs \in ColumnSets, method \in FillMethods, dv \in Defaults : \E cols \in Orders(cs) :
        Call("fillna", [cols |-> cs, method |-> method, default |-> dv],
             fillna(variant, heap, refs, cols, method, dv))
Dropna ==
    \E cs \in ColumnSets : \E cols \in Orders(cs) :
        Call("dropna", [cols |-> cs], dropna(variant, heap, refs, cols))
Scale ==
    \E cs \in ColumnSets, method \in ScaleMethods : \E cols \in Orders(cs) :
        Call("scale", [cols |-> cs, method |-> method], scale(variant, heap, refs, cols, method))
Encode ==
    \E cs \in ColumnSets, method \in EncodeMethods : \E cols \in Orders(cs) :
        Call("encode", [cols |-> cs, method |-> method], encode(variant, heap, refs, cols, method))

Next ==
    \/ Return
    \/ Notna
    \/ Fillna
    \/ Dropna
    \/ Scale
    \/ Encode

Spec == Init /\ [][Next]_vars

\* The encoder alone, on datasets where a column x stands beside a column
\* that already bears the name of one of its indicator columns
OneHotArgs ==
    LET xs == {Put(EmptyDict, "x", q) : q \in Lists(XValues, MaxRows)}
    IN xs \cup {Put(ds, "x_1", q) : ds \in xs, q \in Lists(YValues, MaxRows)}

OneHotInit ==
    /\ variant \in {"lib", "skeleton"}
    /\ phase = "ready"
    /\ \E obj \in OneHotArgs :
          /\ StatisticsInitError(obj) = ""
          /\ heap = [caller |-> obj, private |-> NoDict]
    /\ refs = PreprocessingInit(variant)
    /\ call = NoCall
    /\ nops = 0

OneHotNext ==
    \/ Return
    \/ Encode

SpecOneHot == OneHotInit /\ [][OneHotNext]_vars

----------------------------------------------------------------------------
(* Claims about the engine, checked under SpecStats *)

\* the column the last query read, as the engine saw it, and its non-null values
Queried == call.before[refs.stat].m[call.args.col]
NonNull(q) == SelectSeq(q, LAMBDA v : ~IsNull(v))
QueryOf(op) ==
    /\ phase = "ready" /\ call.op = op
    /\ call.args.col \in DOMAIN call.before[refs.stat].m

\* C1: on an existing column whose non-null values are all numeric, mean returns
\* 0.0 when there is no non-null value and otherwise the sum of the non-null
\* values divided by their count; it does not fail.
C1_MeanIgnoresNull ==
    (QueryOf("mean") /\ AllNumeric(NonNull(Queried))) =>
        /\ call.ret.err = ""
        /\ call.ret.val = IF NonNull(Queried) = <<>> THEN FZero
                          ELSE Div(SeqSum(NonNull(Queried)), I(Len(NonNull(Queried))))

\* the values of q that are first occurrences, each tagged with its count in q
FirstSeen(q) ==
    LET tagged == [i \in 1..Len(q) |->
                     [key |-> q[i], cnt |-> Count(q, q[i]),
                      first |-> \A j \in 1..(i - 1) : ~PyEq(q[j], q[i])]]
    IN SelectSeq(tagged, LAMBDA e : e.first)
\* the values of q whose count is the largest count, in first-seen order
MostFrequent(q) ==
    LET fs == FirstSeen(q)
    IN Column(SelectSeq(fs, LAMBDA e : \A j \in 1..Len(fs) : fs[j].cnt <= e.cnt), "key")

\* C2: mode returns exactly the non-null values whose count is the maximum
\* count among the non-null values, in first-seen order (so the empty sequence
\* when there is no non-null value, and never null).
C2_ModeOfNonNull ==
    QueryOf("mode") =>
        /\ call.ret.err = ""
        /\ call.ret.val = MostFrequent(NonNull(Queried))

\* C3: conditional_probability works on the sequence s of non-null values:
\* #{i : s[i] = value2 /\ s[i+1] = value1} / #{i : s[i] = value2}, and 0.0 when
\* s has fewer than 2 elements or value2 does not occur in s.
C3_TransitionsOverNonNull ==
    QueryOf("conditional_probability") =>
        LET s == NonNull(Queried)
            pairs == Cardinality({i \in 1..(Len(s) - 1) :
                        PyEq(s[i], call.args.value2) /\ PyEq(s[i + 1], call.args.value1)})
        IN /\ call.ret.err = ""
           /\ call.ret.val = IF Len(s) < 2 \/ Count(s, call.args.value2) = 0 THEN FZero
                             ELSE Div(I(pairs), I(Count(s, call.args.value2)))

\* C4: Statistics(dataset) fails with TypeError when dataset is no mapping or a
\* column is no list; over a mapping of lists it succeeds exactly when all
\* columns have one length and fails with ValueError otherwise; on success the
\* engine holds the caller's mapping itself.
C4_ConstructionContract ==
    (variant = "none" /\ call.op = "init") =>
        LET arg == call.before.caller
            lists == arg.isdict /\ arg.nl = {}
            sameLength == \A a, b \in DOMAIN arg.m : Len(arg.m[a]) = Len(arg.m[b])
        IN /\ ~lists => call.ret.err = "TypeError"
           /\ (lists /\ sameLength) => call.ret.err = "" /\ refs.stat = "caller"
           /\ (lists /\ ~sameLength) => call.ret.err = "ValueError"

\* C5: on an existing column, zero rows included, cumulative_frequency fails
\* with ValueError whenever the method is neither "absolute" nor "relative".
C5_MethodValidatedFirst ==
    (QueryOf("cumulative_frequency") /\ call.args.method \notin {"absolute", "relative"}) =>
        call.ret.err = "ValueError"

----------------------------------------------------------------------------
(* Claims about the facade, checked under Spec *)

Components == {"pre", "stat", "mv", "mvstat", "sc", "scstat", "enc", "encstat"}

\* C6: whatever was called, every component that holds a dataset still holds
\* the mapping supplied at construction: no component was handed another one.
C6_OneSharedDataset ==
    variant # "none" => \A f \in Components : refs[f] \in {"caller", "none"}

SameLengths(ds) == \A a, b \in DOMAIN ds.m : Len(ds.m[a]) = Len(ds.m[b])

\* C7: after any calls, every column of the dataset (of the mapping supplied
\* and of the one the MissingValueProcessor works on) has the length of every
\* other column, the columns one-hot encoding added included.
C7_EqualLengths ==
    variant # "none" => SameLengths(heap.caller) /\ (heap.private.isdict => SameLengths(heap.private))

\* C7 witness: rows were dropped from a dataset to which one-hot encoding had
\* added columns.
C7_Witness ==
    /\ call.op = "dropna" /\ call.ret.err = "" /\ variant = "lib"
    /\ RowCount(heap[refs.mv]) < RowCount(call.before[call.rbefore.mv])
    /\ DOMAIN heap[refs.mv].m \ {"x", "y"} # {}

\* C8: a scale or encode call that fails on a missing column or on a value of
\* the wrong type leaves every dataset as it was before the call.
C8_FailedCallChangesNothing ==
    (call.op \in {"scale", "encode"} /\ call.ret.err \in {"KeyError", "TypeError"}) =>
        heap = call.before

\* the dataset the MissingValueProcessor worked on when the last call began,
\* the one it holds now, and the columns the call targets
MvBefore == call.before[call.rbefore.mv]
MvAfter == heap[refs.mv]
Targets == IF call.args.cols = {} THEN DOMAIN MvBefore.m ELSE call.args.cols
\* the rows of MvBefore with no null in a targeted column
CleanRows == {i \in 1..RowCount(MvBefore) : \A c \in Targets : ~IsNull(MvBefore.m[c][i])}

\* C9 (preprocessing_lib.py, on the MissingValueProcessor's dataset): dropna
\* keeps exactly the rows with no null in a targeted column, in their order,
\* in every column; notna on the same columns then returns every remaining
\* row, and a second dropna changes nothing.
C9_DropnaExactAndIdempotent ==
    (variant = "lib" /\ call.op = "dropna" /\ call.ret.err = "") =>
        /\ MvAfter.ks = MvBefore.ks
        /\ \A c \in DOMAIN MvBefore.m :
              /\ Len(MvAfter.m[c]) = Cardinality(CleanRows)
              /\ \A i \in CleanRows :
                    MvAfter.m[c][Cardinality({j \in CleanRows : j <= i})] = MvBefore.m[c][i]
        /\ \A cols \in Orders(call.args.cols) :
              /\ notna(variant, heap, refs, cols).val = MvAfter
              /\ LET again == dropna(variant, heap, refs, cols)
                 IN again.err = "" /\ again.heap[again.refs.mv] = MvAfter

\* C9 witness: a dropna over two columns that removed a row and kept one
C9_Witness ==
    /\ variant = "lib" /\ call.op = "dropna" /\ call.ret.err = ""
    /\ call.args.cols = {"x", "y"}
    /\ 0 < RowCount(MvAfter) /\ RowCount(MvAfter) < RowCount(MvBefore)

\* the fill values the claim allows for a column with non-null values q
AllowedFills(q, default_value) ==
    {default_value} \cup
    (IF q # <<>> /\ AllNumeric(q)
     THEN {Div(SeqSum(q), I(Len(q))),
           IF Len(q) % 2 = 1 THEN Sorted(q)[(Len(q) \div 2) + 1]
           ELSE Div(Add(Sorted(q)[Len(q) \div 2], Sorted(q)[(Len(q) \div 2) + 1]), I(2))}
     ELSE {})
    \cup Range(MostFrequent(q))

\* C10 (preprocessing_lib.py; the fillna of preprocessing.py is `pass` and
\* fills nothing): a successful fillna keeps the columns, the row count, the
\* untargeted columns and every non-null value, and gives all null slots of a
\* targeted column one fill value: the mean, median or a mode of that
\* column's non-null values, or the default.
C10_FillnaRewritesOnlyNulls ==
    (variant = "lib" /\ call.op = "fillna" /\ call.ret.err = "") =>
        /\ MvAfter.ks = MvBefore.ks
        /\ \A c \in DOMAIN MvBefore.m : Len(MvAfter.m[c]) = Len(MvBefore.m[c])
        /\ \A c \in DOMAIN MvBefore.m \ Targets : MvAfter.m[c] = MvBefore.m[c]
        /\ \A c \in Targets \cap DOMAIN MvBefore.m :
              /\ \A i \in 1..Len(MvBefore.m[c]) :
                    ~IsNull(MvBefore.m[c][i]) => MvAfter.m[c][i] = MvBefore.m[c][i]
              /\ \E fv \in AllowedFills(NonNull(MvBefore.m[c]), call.args.default) :
                    \A i \in 1..Len(MvBefore.m[c]) :
                        IsNull(MvBefore.m[c][i]) => PyEq(MvAfter.m[c][i], fv)

\* the dataset the Scaler worked on when the last call began, the one it
\* holds now, and the columns a scale call targets
ScBefore == call.before[call.rbefore.scstat]
ScAfter == heap[refs.scstat]
ScTargets == IF call.args.cols = {} THEN DOMAIN ScBefore.m ELSE call.args.cols
\* the non-null values of q have zero range, hence zero standard deviation
ZeroSpread(q) == \A i, j \in 1..Len(q) : (~IsNull(q[i]) /\ ~IsNull(q[j])) => PyEq(q[i], q[j])

\* C11: a minMax or standard scaling of existing columns whose non-null
\* values are all numeric succeeds; every targeted column keeps its length
\* and its null positions, and where its non-null values have zero range
\* (zero standard deviation) each of them becomes 0.0.
C11_ScalingKeepsNullsAndNeverDivides ==
    (/\ call.op = "scale" /\ call.args.method \in {"minMax", "standard"}
     /\ ScTargets \subseteq DOMAIN ScBefore.m
     /\ \A c \in ScTargets : AllNumeric(NonNull(ScBefore.m[c]))) =>
        /\ call.ret.err = ""
        /\ \A c \in ScTargets :
              /\ Len(ScAfter.m[c]) = Len(ScBefore.m[c])
              /\ \A i \in 1..Len(ScBefore.m[c]) :
                    /\ IsNull(ScAfter.m[c][i]) <=> IsNull(ScBefore.m[c][i])
                    /\ (ZeroSpread(ScBefore.m[c]) /\ ~IsNull(ScBefore.m[c][i])) =>
                           ScAfter.m[c][i] = FZero

\* the dataset the Encoder worked on when the last call began and the one it
\* holds now
EncBefore == call.before[call.rbefore.encstat]
EncAfter == heap[refs.encstat]
\* the name the claim gives the indicator column of category cat of column c
IndicatorName(c, cat) == c \o "_" \o PyStr(cat)
\* EncAfter is EncBefore one-hot encoded on the columns cs, the categories of
\* a column c being cats[c], one value per category
OneHotOf(cs, cats) ==
    LET names(c) == {IndicatorName(c, cat) : cat \in Range(cats[c])}
        added == UNION {names(c) : c \in cs}
    IN /\ DOMAIN EncAfter.m \cap cs = {}
       /\ DOMAIN EncAfter.m \ DOMAIN EncBefore.m = added
       /\ \A c \in cs : Cardinality(names(c)) = Len(cats[c])
       /\ \A c \in cs : \A k \in 1..Len(cats[c]) :
             LET new == EncAfter.m[IndicatorName(c, cats[c][k])]
                 old == EncBefore.m[c]
             IN /\ Len(new) = Len(old)
                /\ \A i \in 1..Len(old) : PyEq(new[i], I(1)) <=> PyEq(old[i], cats[c][k])
       /\ \A c \in DOMAIN EncBefore.m \ cs : c \in DOMAIN EncAfter.m /\ EncAfter.m[c] = EncBefore.m[c]

\* C12: a successful oneHot encode removes every targeted column and leaves,
\* for each of its k distinct categories c, one new column "{original}_{c}"
\* holding 1 at exactly the rows whose value was c, k new columns in all; the
\* other columns are unchanged.  The categories are the distinct values of
\* the column, the null marker counted among them or not.
C12_OneHotExactColumns ==
    (call.op = "encode" /\ call.args.method = "oneHot" /\ call.args.cols # {}
     /\ call.ret.err = "") =>
        \/ OneHotOf(call.args.cols, [c \in call.args.cols |-> Distinct(EncBefore.m[c])])
        \/ OneHotOf(call.args.cols, [c \in call.args.cols |-> Distinct(NonNull(EncBefore.m[c]))])

\* the method keywords each selector of the facade supports (any other string
\* takes the same branch as "constant", "robust" and "binary" do)
Supported(op) ==
    CASE op = "fillna" -> {"mean", "median", "mode"}
      [] op = "scale" -> {"minMax", "standard"}
      [] op = "encode" -> {"label", "oneHot"}

\* C13: fillna, scale and encode called with a method keyword outside the
\* supported set fail with ValueError (InvalidArgument) and leave every
\* dataset unchanged, whatever the dataset and the column set, the empty
\* column set included.
C13_UnknownMethodRejected ==
    (call.op \in {"fillna", "scale", "encode"} /\ call.args.method \notin Supported(call.op)) =>
        call.ret.err = "ValueError" /\ heap = call.before /\ refs = call.rbefore

====
